---- MODULE Spec2Model ----
(***************************************************************************)
(* Model of mcp_server_perplexity/server.py: the request lifecycle of      *)
(* handle_call_tool.  One invocation is a handler coroutine (the MCP tool   *)
(* call) plus the asyncio task it creates for client.post(...).  The        *)
(* handler's position is pc: every value of pc is one of the places where   *)
(* the coroutine is suspended (an await of the source), every handler       *)
(* action is the code that runs between two suspensions.  The request task  *)
(* is the httpx transport: connect (with retries), send, receive, each of   *)
(* them bounded by the timeout passed to client.post.                       *)
(***************************************************************************)
EXTENDS Integers, Sequences, FiniteSets, TLC

\* ---------------------------------------------------------------- constants
DEFAULT_TIMEOUT == 60

RETRIES == 2

\* The clock of a request advances by this many seconds per Tick.
Quantum == 30

\* The model follows at most this many calls of handle_list_tools.
MaxListings == 2

\* Invocation slots; Spec runs the slots of Active, the others stay idle.
Invocations == {1, 2}

Active == {1}

\* ------------------------------------------------------------------ inputs
RegisteredName == "ask_perplexity"

Names == {"ask_perplexity", "other_tool"}

Arguments == {"args_a", "args_b"}

Statuses == {200, 301, 401, 500}

Bodies == {"{\"id\":\"x\",\"choices\":[]}", "{\"error\":\"bad key\"}"}

\* ------------------------------------------------- httpx exception classes
TimeoutExceptions == {"ConnectTimeout", "WriteTimeout", "ReadTimeout"}

TransportErrors == {"ConnectError", "WriteError", "ReadError", "RemoteProtocolError"}

OtherExceptions == {"TypeError"}

IsTimeoutException(e) == e \in TimeoutExceptions

\* httpx.HTTPError is the base class of TimeoutException, of the other
\* transport errors and of HTTPStatusError.
IsHTTPError(e) == e \in TimeoutExceptions \cup TransportErrors \cup {"HTTPStatusError"}

\* asyncio.CancelledError derives from BaseException, not from Exception.
IsException(e) == e # "CancelledError"

\* Only HTTPStatusError carries a response attribute.
HasResponse(e) == e = "HTTPStatusError"

\* ------------------------------------------------------------- formatting
Digit(d) ==
    CASE d = 0 -> "0" [] d = 1 -> "1" [] d = 2 -> "2" [] d = 3 -> "3"
      [] d = 4 -> "4" [] d = 5 -> "5" [] d = 6 -> "6" [] d = 7 -> "7"
      [] d = 8 -> "8" [] d = 9 -> "9"

RECURSIVE DecStr(_)
DecStr(n) == IF n < 10 THEN Digit(n) ELSE DecStr(n \div 10) \o Digit(n % 10)

\* f"{x}" of a float holding a whole number
FloatStr(n) == DecStr(n) \o ".0"

\* Response.is_success
IsSuccess2xx(s) == 200 <= s /\ s <= 299

\* str(e) of the HTTPStatusError raised by raise_for_status
StatusErrorStr(s) ==
    (IF s < 200 THEN "Informational response"
     ELSE IF s < 400 THEN "Redirect response"
     ELSE IF s < 500 THEN "Client error"
     ELSE "Server error") \o " '" \o DecStr(s) \o "' for url '"
        \o "https://api.perplexity.ai" \o "/chat/completions" \o "'"

\* ---------------------------------------------------------------- results
\* What the handler hands to its caller: a returned text content or a
\* raised exception, with the source line of the return / raise statement.
NoOutcome == [form |-> "none", exc |-> "none", text |-> <<>>, line |-> 0]

Return(txt, ln) == [form |-> "return", exc |-> "none", text |-> txt, line |-> ln]

Raise(cls, txt, ln) == [form |-> "raise", exc |-> cls, text |-> txt, line |-> ln]

UnknownToolOutcome(n) == Raise("ValueError", <<"Unknown tool: ", n>>, 90)

CancelledText == <<"Request was cancelled by the client.">>

TimedOutText ==
    <<"Request timed out after ", FloatStr(DEFAULT_TIMEOUT), " seconds. Please try again.">>

\* What travels through the exit of the `async with` block.
NoSignal == [tag |-> "none", val |-> "none"]

ReturnSignal(v) == [tag |-> "return", val |-> v]

ExcSignal(e) == [tag |-> "exc", val |-> e]

\* --------------------------------------------------- classification (pure)
\* Variant: raise_for_status that raises for 4xx and 5xx only.
RaiseForStatus_ErrorsOnly(s) ==
    IF s >= 400 THEN ExcSignal("HTTPStatusError") ELSE ReturnSignal("response")

\* response.raise_for_status(): HTTPStatusError unless the status is 2xx.
RaiseForStatus(s) ==
    IF IsSuccess2xx(s) THEN ReturnSignal("response") ELSE ExcSignal("HTTPStatusError")

\* Lines 113-121: what leaves the inner try when the shielded await
\* resumes with the finished task (t = "returned" or "raised").
AfterShield(t, e, s) ==
    IF t = "returned" THEN RaiseForStatus(s) ELSE ExcSignal(e)

\* Lines 125-136 when request_task is finished already: cancel() is a
\* no-op, `await request_task` yields the response (dropped) or re-raises
\* the task's exception, which is not a CancelledError and leaves the block.
AfterCancelOfFinished(t, e) ==
    IF t = "returned" THEN ReturnSignal("cancelled") ELSE ExcSignal(e)

\* str(e) of the exceptions that are not HTTPStatusError
Cause(e) == e \o " raised by client.post"

ApiErrorText(s, b) ==
    <<"API error: ", StatusErrorStr(s), "\\nResponse: ", b>>

\* Variant: the except clauses in the order HTTPError, TimeoutException,
\* Exception.
ExceptClauses_HTTPErrorFirst(e, s, b) ==
    IF IsHTTPError(e) THEN
        IF HasResponse(e) THEN Raise("RuntimeError", ApiErrorText(s, b), 149)
        ELSE Raise("AttributeError", <<e, " object has no attribute 'response'">>, 147)
    ELSE IF IsTimeoutException(e) THEN Return(TimedOutText, 139)
    ELSE IF IsException(e) THEN
        Raise("RuntimeError", <<"Unexpected error: ", Cause(e)>>, 151)
    ELSE Raise(e, <<>>, 97)

\* Variant: the timeout clause raises its text instead of returning it.
ExceptClauses_TimeoutRaised(e, s, b) ==
    IF IsTimeoutException(e) THEN Raise("RuntimeError", TimedOutText, 139)
    ELSE IF IsHTTPError(e) THEN
        IF HasResponse(e) THEN Raise("RuntimeError", ApiErrorText(s, b), 149)
        ELSE Raise("AttributeError", <<e, " object has no attribute 'response'">>, 147)
    ELSE IF IsException(e) THEN
        Raise("RuntimeError", <<"Unexpected error: ", Cause(e)>>, 151)
    ELSE Raise(e, <<>>, 97)

\* Lines 138-151: the except clauses of the outer try, in source order.
\* In the HTTPError clause e.response is evaluated before hasattr is called;
\* an exception raised inside an except clause is not handled by the
\* clauses that follow it.
ExceptClauses(e, s, b) ==
    IF IsTimeoutException(e) THEN Return(TimedOutText, 139)
    ELSE IF IsHTTPError(e) THEN
        IF HasResponse(e) THEN Raise("RuntimeError", ApiErrorText(s, b), 149)
        ELSE Raise("AttributeError", <<e, " object has no attribute 'response'">>, 147)
    ELSE IF IsException(e) THEN
        Raise("RuntimeError", <<"Unexpected error: ", Cause(e)>>, 151)
    ELSE Raise(e, <<>>, 97)

\* json.dumps(json.loads(b), sort_keys=True): what a body would become if
\* it were parsed and serialised again.
Reserialised(b) ==
    CASE b = "{\"id\":\"x\",\"choices\":[]}" -> "{\"choices\": [], \"id\": \"x\"}"
      [] b = "{\"error\":\"bad key\"}" -> "{\"error\": \"bad key\"}"
      [] OTHER -> b

\* Variant: the body of a 2xx response is parsed and serialised again.
Classify_Reserialises(sig, s, b) ==
    IF sig.tag = "return" THEN
        IF sig.val = "response" THEN Return(<<Reserialised(b)>>, 116)
        ELSE Return(CancelledText, 131)
    ELSE ExceptClauses(sig.val, s, b)

\* The handler's result once the `async with` block has been left.
Classify(sig, s, b) ==
    IF sig.tag = "return" THEN
        IF sig.val = "response" THEN Return(<<b>>, 116) ELSE Return(CancelledText, 131)
    ELSE ExceptClauses(sig.val, s, b)

\* ------------------------------------------------------------------- state
VARIABLES
    name,             \* name[i]: the tool name of invocation i
    args,             \* args[i]: its arguments
    pc,               \* "idle", "awaiting" (l.113), "teardown" (l.127), "closing" (exit of l.97), "done"
    client,           \* "none", "open", "closed", "close_interrupted"
    pending,          \* the return value / exception leaving the async with block
    outcome,          \* what the caller received
    delivered,        \* number of outcomes the caller received
    cancelObserved,   \* the handler has caught or been hit by a CancelledError
    cancelSignalled,  \* a cancel() of the handler that it has not seen yet
    task,             \* request_task: "none", "running", "cancelling", "returned", "raised", "cancelled"
    taskExc,          \* the exception request_task ended with
    respStatus,       \* status of the response request_task returned
    respBody,         \* its body text
    phase,            \* transport phase: "none", "connect", "send", "recv"
    attempts,         \* connection attempts made so far
    phaseClock,       \* seconds spent in the current transport operation
    elapsed,          \* seconds since the request task was started
    tasksCreated,     \* number of asyncio.create_task calls
    cancelCalls,      \* number of request_task.cancel() calls
    listings          \* what the calls of handle_list_tools returned, in order

callVars == <<name, args, listings>>

handlerVars == <<pc, client, pending, outcome, delivered, cancelObserved>>

taskVars == <<task, taskExc, respStatus, respBody, phase, attempts>>

clockVars == <<phaseClock, elapsed>>

countVars == <<tasksCreated, cancelCalls>>

vars == <<callVars, handlerVars, cancelSignalled, taskVars, clockVars, countVars>>

Init ==
    /\ name = [i \in Invocations |-> "none"]
    /\ args = [i \in Invocations |-> "none"]
    /\ pc = [i \in Invocations |-> "idle"]
    /\ client = [i \in Invocations |-> "none"]
    /\ pending = [i \in Invocations |-> NoSignal]
    /\ outcome = [i \in Invocations |-> NoOutcome]
    /\ delivered = [i \in Invocations |-> 0]
    /\ cancelObserved = [i \in Invocations |-> FALSE]
    /\ cancelSignalled = [i \in Invocations |-> FALSE]
    /\ task = [i \in Invocations |-> "none"]
    /\ taskExc = [i \in Invocations |-> "none"]
    /\ respStatus = [i \in Invocations |-> 0]
    /\ respBody = [i \in Invocations |-> ""]
    /\ phase = [i \in Invocations |-> "none"]
    /\ attempts = [i \in Invocations |-> 0]
    /\ phaseClock = [i \in Invocations |-> 0]
    /\ elapsed = [i \in Invocations |-> 0]
    /\ tasksCreated = [i \in Invocations |-> 0]
    /\ cancelCalls = [i \in Invocations |-> 0]
    /\ listings = <<>>

\* ----------------------------------------------------------------- handler
\* Variant: the client and the request task are set up before the name
\* is checked.
Call_ChecksNameLast(i, n, a) ==
    /\ pc[i] = "idle"
    /\ name' = [name EXCEPT ![i] = n]
    /\ args' = [args EXCEPT ![i] = a]
    /\ client' = [client EXCEPT ![i] = "open"]
    /\ task' = [task EXCEPT ![i] = "running"]
    /\ phase' = [phase EXCEPT ![i] = "connect"]
    /\ attempts' = [attempts EXCEPT ![i] = 1]
    /\ tasksCreated' = [tasksCreated EXCEPT ![i] = @ + 1]
    /\ IF n # RegisteredName
       THEN /\ outcome' = [outcome EXCEPT ![i] = UnknownToolOutcome(n)]
            /\ delivered' = [delivered EXCEPT ![i] = @ + 1]
            /\ pc' = [pc EXCEPT ![i] = "done"]
       ELSE /\ pc' = [pc EXCEPT ![i] = "awaiting"]
            /\ UNCHANGED <<outcome, delivered>>
    /\ UNCHANGED <<pending, cancelObserved, cancelSignalled, taskExc, respStatus,
                   respBody, clockVars, cancelCalls, listings>>

\* Lines 89-113: the name check, then transport, client and request task,
\* up to the suspension in `await asyncio.shield(request_task)`.
Call(i, n, a) ==
    /\ pc[i] = "idle"
    /\ name' = [name EXCEPT ![i] = n]
    /\ args' = [args EXCEPT ![i] = a]
    /\ IF n # RegisteredName
       THEN /\ outcome' = [outcome EXCEPT ![i] = UnknownToolOutcome(n)]
            /\ delivered' = [delivered EXCEPT ![i] = @ + 1]
            /\ pc' = [pc EXCEPT ![i] = "done"]
            /\ UNCHANGED <<client, task, phase, attempts, tasksCreated>>
       ELSE /\ client' = [client EXCEPT ![i] = "open"]
            /\ task' = [task EXCEPT ![i] = "running"]
            /\ phase' = [phase EXCEPT ![i] = "connect"]
            /\ attempts' = [attempts EXCEPT ![i] = 1]
            /\ tasksCreated' = [tasksCreated EXCEPT ![i] = @ + 1]
            /\ pc' = [pc EXCEPT ![i] = "awaiting"]
            /\ UNCHANGED <<outcome, delivered>>
    /\ UNCHANGED <<pending, cancelObserved, cancelSignalled, taskExc, respStatus,
                   respBody, clockVars, cancelCalls, listings>>

\* Variant: when the request timed out the handler sends it once more.
ResumeFromShield_RetriesTimeout(i) ==
    /\ pc[i] = "awaiting"
    /\ ~cancelSignalled[i]
    /\ task[i] \in {"returned", "raised"}
    /\ IF task[i] = "raised" /\ IsTimeoutException(taskExc[i]) /\ tasksCreated[i] < 2
       THEN /\ task' = [task EXCEPT ![i] = "running"]
            /\ taskExc' = [taskExc EXCEPT ![i] = "none"]
            /\ phase' = [phase EXCEPT ![i] = "connect"]
            /\ attempts' = [attempts EXCEPT ![i] = 1]
            /\ phaseClock' = [phaseClock EXCEPT ![i] = 0]
            /\ tasksCreated' = [tasksCreated EXCEPT ![i] = @ + 1]
            /\ UNCHANGED <<pending, pc>>
       ELSE /\ pending' = [pending EXCEPT ![i] =
                              AfterShield(task[i], taskExc[i], respStatus[i])]
            /\ pc' = [pc EXCEPT ![i] = "closing"]
            /\ UNCHANGED <<task, taskExc, phase, attempts, phaseClock, tasksCreated>>
    /\ UNCHANGED <<callVars, client, outcome, delivered, cancelObserved,
                   cancelSignalled, respStatus, respBody, elapsed, cancelCalls>>

\* Lines 113-121: the shielded await resumes with the finished task and no
\* cancellation is pending; the result or the exception leaves the block.
ResumeFromShield(i) ==
    /\ pc[i] = "awaiting"
    /\ ~cancelSignalled[i]
    /\ task[i] \in {"returned", "raised"}
    /\ pending' = [pending EXCEPT ![i] = AfterShield(task[i], taskExc[i], respStatus[i])]
    /\ pc' = [pc EXCEPT ![i] = "closing"]
    /\ UNCHANGED <<callVars, client, outcome, delivered, cancelObserved,
                   cancelSignalled, taskVars, clockVars, countVars>>

\* Variant: request_task.cancel() without awaiting the task.
ObserveCancel_FireAndForget(i) ==
    /\ pc[i] = "awaiting"
    /\ cancelSignalled[i]
    /\ cancelSignalled' = [cancelSignalled EXCEPT ![i] = FALSE]
    /\ cancelObserved' = [cancelObserved EXCEPT ![i] = TRUE]
    /\ cancelCalls' = [cancelCalls EXCEPT ![i] = @ + 1]
    /\ task' = [task EXCEPT ![i] = IF @ = "running" THEN "cancelling" ELSE @]
    /\ pending' = [pending EXCEPT ![i] = ReturnSignal("cancelled")]
    /\ pc' = [pc EXCEPT ![i] = "closing"]
    /\ UNCHANGED <<callVars, client, outcome, delivered, taskExc, respStatus,
                   respBody, phase, attempts, clockVars, tasksCreated>>

\* Variant: the request tasks are kept in one place shared by all
\* invocations and a cancellation cancels every task that is running.
ObserveCancel_CancelsAllTasks(i) ==
    /\ pc[i] = "awaiting"
    /\ cancelSignalled[i]
    /\ cancelSignalled' = [cancelSignalled EXCEPT ![i] = FALSE]
    /\ cancelObserved' = [cancelObserved EXCEPT ![i] = TRUE]
    /\ cancelCalls' = [cancelCalls EXCEPT ![i] = @ + 1]
    /\ task' = [k \in Invocations |-> IF task[k] = "running" THEN "cancelling" ELSE task[k]]
    /\ IF task[i] = "running"
       THEN /\ pc' = [pc EXCEPT ![i] = "teardown"]
            /\ UNCHANGED pending
       ELSE /\ pending' = [pending EXCEPT ![i] = AfterCancelOfFinished(task[i], taskExc[i])]
            /\ pc' = [pc EXCEPT ![i] = "closing"]
    /\ UNCHANGED <<callVars, client, outcome, delivered, taskExc, respStatus,
                   respBody, phase, attempts, clockVars, tasksCreated>>

\* Lines 123-127: CancelledError is raised at the shielded await.  The
\* handler calls request_task.cancel() and awaits the task: a running task
\* has to wind down first, a finished one answers at once.
ObserveCancel(i) ==
    /\ pc[i] = "awaiting"
    /\ cancelSignalled[i]
    /\ cancelSignalled' = [cancelSignalled EXCEPT ![i] = FALSE]
    /\ cancelObserved' = [cancelObserved EXCEPT ![i] = TRUE]
    /\ cancelCalls' = [cancelCalls EXCEPT ![i] = @ + 1]
    /\ IF task[i] = "running"
       THEN /\ task' = [task EXCEPT ![i] = "cancelling"]
            /\ pc' = [pc EXCEPT ![i] = "teardown"]
            /\ UNCHANGED pending
       ELSE /\ pending' = [pending EXCEPT ![i] = AfterCancelOfFinished(task[i], taskExc[i])]
            /\ pc' = [pc EXCEPT ![i] = "closing"]
            /\ UNCHANGED task
    /\ UNCHANGED <<callVars, client, outcome, delivered, taskExc, respStatus,
                   respBody, phase, attempts, clockVars, tasksCreated>>

\* Variant: after the cancellation the handler waits for a result of the
\* request task instead of its end.
TeardownDone_AwaitsResult(i) ==
    /\ pc[i] = "teardown"
    /\ task[i] = "returned"
    /\ pending' = [pending EXCEPT ![i] = ReturnSignal("cancelled")]
    /\ cancelSignalled' = [cancelSignalled EXCEPT ![i] = FALSE]
    /\ pc' = [pc EXCEPT ![i] = "closing"]
    /\ UNCHANGED <<callVars, client, outcome, delivered, cancelObserved,
                   taskVars, clockVars, countVars>>

\* Lines 127-136: the cancelled task has finished; its CancelledError is
\* swallowed (as is one delivered to the handler meanwhile) and the
\* cancellation text is returned.
TeardownDone(i) ==
    /\ pc[i] = "teardown"
    /\ task[i] = "cancelled"
    /\ pending' = [pending EXCEPT ![i] = ReturnSignal("cancelled")]
    /\ cancelSignalled' = [cancelSignalled EXCEPT ![i] = FALSE]
    /\ pc' = [pc EXCEPT ![i] = "closing"]
    /\ UNCHANGED <<callVars, client, outcome, delivered, cancelObserved,
                   taskVars, clockVars, countVars>>

\* Exit of the `async with` of line 97 (await client.__aexit__), then lines
\* 116-151.  A CancelledError delivered while the client is being closed
\* replaces whatever was leaving the block and no except clause catches it.
CloseClient(i) ==
    /\ pc[i] = "closing"
    /\ IF cancelSignalled[i]
       THEN /\ client' = [client EXCEPT ![i] = "close_interrupted"]
            /\ outcome' = [outcome EXCEPT ![i] =
                              ExceptClauses("CancelledError", respStatus[i], respBody[i])]
            /\ cancelObserved' = [cancelObserved EXCEPT ![i] = TRUE]
       ELSE /\ client' = [client EXCEPT ![i] = "closed"]
            /\ outcome' = [outcome EXCEPT ![i] =
                              Classify(pending[i], respStatus[i], respBody[i])]
            /\ UNCHANGED cancelObserved
    /\ cancelSignalled' = [cancelSignalled EXCEPT ![i] = FALSE]
    /\ delivered' = [delivered EXCEPT ![i] = @ + 1]
    /\ pc' = [pc EXCEPT ![i] = "done"]
    /\ UNCHANGED <<callVars, pending, taskVars, clockVars, countVars>>

\* Variant: the request task is awaited without asyncio.shield, so that a
\* cancel() of the handler at that await cancels the task it waits for.
CancelRequest_Unshielded(i) ==
    /\ pc[i] \in {"awaiting", "teardown", "closing"}
    /\ ~cancelSignalled[i]
    /\ cancelSignalled' = [cancelSignalled EXCEPT ![i] = TRUE]
    /\ task' = [task EXCEPT ![i] =
                    IF pc[i] = "awaiting" /\ @ = "running" THEN "cancelling" ELSE @]
    /\ UNCHANGED <<callVars, handlerVars, taskExc, respStatus, respBody, phase,
                   attempts, clockVars, countVars>>

\* The caller cancels the handler while it is suspended in one of its awaits.
CancelRequest(i) ==
    /\ pc[i] \in {"awaiting", "teardown", "closing"}
    /\ ~cancelSignalled[i]
    /\ cancelSignalled' = [cancelSignalled EXCEPT ![i] = TRUE]
    /\ UNCHANGED <<callVars, handlerVars, taskVars, clockVars, countVars>>

\* ----------------------------------------------------------- tool registry
\* Lines 20-82: the one tool the server publishes.
InputSchema ==
    [type |-> "object",
     properties |->
        [model |-> [type |-> "string",
                    enum |-> <<"llama-3.1-sonar-small-128k-online">>],
         messages |-> [type |-> "array",
                       items |-> [type |-> "object",
                                  properties |->
                                     [content |-> [type |-> "string"],
                                      role |-> [type |-> "string",
                                                enum |-> <<"system", "user", "assistant">>]],
                                  required |-> <<"content", "role">>]]],
     required |-> <<"model", "messages">>]

ToolDescriptor ==
    [name |-> "ask_perplexity",
     description |-> "Perplexity equips agents with a specialized tool for efficiently gathering source-backed information from the internet [...] retrying the operation can lead to successful completion. [Response structure] [...]",
     inputSchema |-> InputSchema]

\* Lines 17-83: handle_list_tools builds its list anew from literals.
HandleListTools == <<ToolDescriptor>>

\* Variant: the descriptors are kept in a module-level list that every
\* call appends to.
ListTools_Accumulates ==
    /\ Len(listings) < MaxListings
    /\ listings' = Append(listings,
                          IF listings = <<>> THEN HandleListTools
                          ELSE listings[Len(listings)] \o HandleListTools)
    /\ UNCHANGED <<name, args, handlerVars, cancelSignalled, taskVars, clockVars, countVars>>

\* The host lists the tools; the handler reads and writes no state.
ListTools ==
    /\ Len(listings) < MaxListings
    /\ listings' = Append(listings, HandleListTools)
    /\ UNCHANGED <<name, args, handlerVars, cancelSignalled, taskVars, clockVars, countVars>>

\* ------------------------------------------------------------ request task
\* client.post(..., timeout=DEFAULT_TIMEOUT) on AsyncHTTPTransport(retries=2):
\* the timeout bounds each transport operation (connect, write, read) on its
\* own, and a failed or timed-out connection attempt is repeated while
\* retries are left.
TimeoutOf(ph) ==
    CASE ph = "connect" -> "ConnectTimeout"
      [] ph = "send" -> "WriteTimeout"
      [] ph = "recv" -> "ReadTimeout"

\* Variant: the retry counter is compared one too late.
RetriesLeft_OneMore(n) == RETRIES - (n - 1) + 1

RetriesLeft(n) == RETRIES - (n - 1)

\* The request task ends with exception e.
TaskRaises(i, e) ==
    /\ task' = [task EXCEPT ![i] = "raised"]
    /\ taskExc' = [taskExc EXCEPT ![i] = e]
    /\ UNCHANGED <<respStatus, respBody, phase, attempts, clockVars>>

\* A connection attempt failed with e: try again or give up with e.
RetryOrRaise(i, e) ==
    IF RetriesLeft(attempts[i]) > 0
    THEN /\ attempts' = [attempts EXCEPT ![i] = @ + 1]
         /\ phaseClock' = [phaseClock EXCEPT ![i] = 0]
         /\ UNCHANGED <<task, taskExc, respStatus, respBody, phase, elapsed>>
    ELSE TaskRaises(i, e)

\* Time passes for a request in flight.
Tick(i) ==
    /\ task[i] = "running"
    /\ phaseClock[i] < DEFAULT_TIMEOUT
    /\ phaseClock' = [phaseClock EXCEPT ![i] = @ + Quantum]
    /\ elapsed' = [elapsed EXCEPT ![i] = @ + Quantum]
    /\ UNCHANGED <<callVars, handlerVars, cancelSignalled, taskVars, countVars>>

\* The timeout of the current transport operation expires.
PhaseTimeout(i) ==
    /\ task[i] = "running"
    /\ phaseClock[i] >= DEFAULT_TIMEOUT
    /\ IF phase[i] = "connect"
       THEN RetryOrRaise(i, TimeoutOf(phase[i]))
       ELSE TaskRaises(i, TimeoutOf(phase[i]))
    /\ UNCHANGED <<callVars, handlerVars, cancelSignalled, countVars>>

\* A connection attempt fails (refused, reset, DNS failure).
ConnectFail(i) ==
    /\ task[i] = "running"
    /\ phase[i] = "connect"
    /\ phaseClock[i] < DEFAULT_TIMEOUT
    /\ RetryOrRaise(i, "ConnectError")
    /\ UNCHANGED <<callVars, handlerVars, cancelSignalled, countVars>>

\* The connection is established / the request has been written.
PhaseDone(i) ==
    /\ task[i] = "running"
    /\ phase[i] \in {"connect", "send"}
    /\ phaseClock[i] < DEFAULT_TIMEOUT
    /\ phase' = [phase EXCEPT ![i] = IF @ = "connect" THEN "send" ELSE "recv"]
    /\ phaseClock' = [phaseClock EXCEPT ![i] = 0]
    /\ UNCHANGED <<callVars, handlerVars, cancelSignalled, task, taskExc,
                   respStatus, respBody, attempts, elapsed, countVars>>

\* Writing or reading fails, or the response is malformed: not retried.
TransportFail(i, e) ==
    /\ task[i] = "running"
    /\ phaseClock[i] < DEFAULT_TIMEOUT
    /\ \/ phase[i] = "send" /\ e = "WriteError"
       \/ phase[i] = "recv" /\ e \in {"ReadError", "RemoteProtocolError"}
    /\ TaskRaises(i, e)
    /\ UNCHANGED <<callVars, handlerVars, cancelSignalled, countVars>>

\* client.post fails with something that is not an httpx.HTTPError
\* (for instance arguments that cannot be serialised).
OtherFail(i, e) ==
    /\ task[i] = "running"
    /\ phase[i] = "connect" /\ attempts[i] = 1 /\ phaseClock[i] = 0
    /\ e \in OtherExceptions
    /\ TaskRaises(i, e)
    /\ UNCHANGED <<callVars, handlerVars, cancelSignalled, countVars>>

\* The response arrives: client.post returns it.
Respond(i, s, b) ==
    /\ task[i] = "running"
    /\ phase[i] = "recv"
    /\ phaseClock[i] < DEFAULT_TIMEOUT
    /\ task' = [task EXCEPT ![i] = "returned"]
    /\ respStatus' = [respStatus EXCEPT ![i] = s]
    /\ respBody' = [respBody EXCEPT ![i] = b]
    /\ UNCHANGED <<callVars, handlerVars, cancelSignalled, taskExc, phase,
                   attempts, clockVars, countVars>>

\* The CancelledError thrown into the request task ends it.
TaskCancelled(i) ==
    /\ task[i] = "cancelling"
    /\ task' = [task EXCEPT ![i] = "cancelled"]
    /\ taskExc' = [taskExc EXCEPT ![i] = "CancelledError"]
    /\ UNCHANGED <<callVars, handlerVars, cancelSignalled, respStatus, respBody,
                   phase, attempts, clockVars, countVars>>

\* ----------------------------------------------------------- specification
HandlerStep(i) ==
    \/ ResumeFromShield(i)
    \/ ObserveCancel(i)
    \/ TeardownDone(i)
    \/ CloseClient(i)

TransportStep(i) ==
    \/ Tick(i)
    \/ PhaseTimeout(i)
    \/ ConnectFail(i)
    \/ PhaseDone(i)
    \/ \E e \in TransportErrors : TransportFail(i, e)
    \/ \E e \in OtherExceptions : OtherFail(i, e)
    \/ \E s \in Statuses, b \in Bodies : Respond(i, s, b)
    \/ TaskCancelled(i)

Step(i) ==
    \/ \E n \in Names, a \in Arguments : Call(i, n, a)
    \/ CancelRequest(i)
    \/ HandlerStep(i)
    \/ TransportStep(i)

Next ==
    \/ \E i \in Active : Step(i)
    \/ ListTools

Spec == Init /\ [][Next]_vars

\* The event loop runs every coroutine that can run, and the transport
\* gets a response, a failure or its timeout; the caller is free not to
\* call and not to cancel.
Fairness ==
    \A i \in Active :
        /\ WF_vars(HandlerStep(i))
        /\ WF_vars(TransportStep(i))

FairSpec == Spec /\ Fairness

\* Concurrent invocations: the host runs the handlers of several tool calls
\* on one event loop.  Every slot of Invocations takes the steps of Step,
\* with the inputs cut down to one arguments object, one body, a 2xx and a
\* non-2xx status and one transport error.
ConcTransportStep(i) ==
    \/ Tick(i)
    \/ PhaseTimeout(i)
    \/ PhaseDone(i)
    \/ TransportFail(i, "ReadError")
    \/ \E s \in {200, 401} : Respond(i, s, "{\"error\":\"bad key\"}")
    \/ TaskCancelled(i)

ConcStep(i) ==
    \/ \E n \in Names : Call(i, n, "args_a")
    \/ CancelRequest(i)
    \/ HandlerStep(i)
    \/ ConcTransportStep(i)

ConcNext == \E i \in Invocations : ConcStep(i)

ConcSpec == Init /\ [][ConcNext]_vars

\* ------------------------------------------------------- outcome kinds
\* The kind of a delivered result, read off what the caller receives.
Kind(o) ==
    IF o.form = "return" THEN
        IF o.text = TimedOutText THEN "TimedOut"
        ELSE IF o.text = CancelledText THEN "Cancelled"
        ELSE "Success"
    ELSE IF o.form = "raise" THEN
        IF o.exc = "RuntimeError" /\ Len(o.text) > 0 /\ o.text[1] = "API error: "
            THEN "UpstreamError"
        ELSE IF o.exc = "RuntimeError" /\ Len(o.text) > 0 /\ o.text[1] = "Unexpected error: "
            THEN "UnexpectedError"
        ELSE IF o.exc = "ValueError" THEN "UnknownOperation"
        ELSE "Escaped"
    ELSE "None"

FiveKinds == {"Success", "TimedOut", "Cancelled", "UpstreamError", "UnexpectedError"}

Started(i) == pc[i] \in {"awaiting", "teardown", "closing"}

Ended(i) == pc[i] = "done" /\ name[i] = RegisteredName

TaskFinished(i) == task[i] \in {"returned", "raised", "cancelled"}

Contains(txt, part) == \E k \in DOMAIN txt : txt[k] = part

\* ------------------------------------------------------------------ claims

\* C1: every invocation of the registered tool ends in exactly one of the
\* five outcome kinds (Success, TimedOut, Cancelled, UpstreamError,
\* UnexpectedError), whatever the upstream and the caller do; nothing else
\* escapes the handler.
C1_OneOfFiveOutcomes ==
    \A i \in Invocations :
        Ended(i) => /\ Kind(outcome[i]) \in FiveKinds
                    /\ delivered[i] = 1

\* C2: under fair scheduling, and an upstream that answers, fails or runs
\* into the transport timeout, every started invocation terminates, also
\* when the caller cancels while the request is in flight.
C2_StartedTerminates ==
    \A i \in Invocations : Started(i) ~> (pc[i] = "done")

C2_Witness ==
    \E i \in Invocations :
        /\ pc[i] = "done"
        /\ cancelCalls[i] = 1
        /\ task[i] = "cancelled"
        /\ elapsed[i] > 0

\* C3: a cancellation signalled after the invocation started and before
\* its outcome is delivered makes the outcome Cancelled (the cancellation
\* text), with the request aborted or finished.
C3_CancelGivesCancelled ==
    \A i \in Invocations :
        (Ended(i) /\ cancelObserved[i]) =>
            /\ Kind(outcome[i]) = "Cancelled"
            /\ TaskFinished(i)

\* C4: once the executor has caught the cancellation at the shielded await
\* (and has called request_task.cancel()), the outcome is Cancelled whatever
\* the request task ended with.
C4_CancelHasPriority ==
    \A i \in Invocations :
        (Ended(i) /\ cancelCalls[i] > 0) => outcome[i] = Return(CancelledText, 131)

\* C5: no invocation is in flight for more than DEFAULT_TIMEOUT seconds
\* (retries included) without an outcome, and a transport timeout ends in
\* TimedOut carrying DEFAULT_TIMEOUT.
C5_BoundedByTimeout ==
    \A i \in Invocations :
        /\ Started(i) => elapsed[i] <= DEFAULT_TIMEOUT
        /\ (Ended(i) /\ ~cancelObserved[i] /\ task[i] = "raised"
                /\ IsTimeoutException(taskExc[i])) =>
             /\ Kind(outcome[i]) = "TimedOut"
             /\ Contains(outcome[i].text, FloatStr(DEFAULT_TIMEOUT))

\* C6: an invocation with a name other than ask_perplexity ends in
\* UnknownOperation (a raised ValueError) and creates no client, no
\* request task and no connection attempt.
C6_UnknownNameNoNetwork ==
    \A i \in Invocations :
        (name[i] \notin {"none", RegisteredName}) =>
            /\ pc[i] = "done"
            /\ outcome[i].form = "raise"
            /\ Kind(outcome[i]) = "UnknownOperation"
            /\ client[i] = "none"
            /\ task[i] = "none"
            /\ tasksCreated[i] = 0
            /\ attempts[i] = 0

C6_Witness ==
    \E i \in Invocations :
        /\ name[i] = "other_tool"
        /\ outcome[i] = UnknownToolOutcome("other_tool")

\* C7: when an outcome leaves the async with block and when it is
\* delivered, the request task is finished (returned, raised or cancelled),
\* never still running or winding down; Cancelled is returned only after
\* the cancelled task has been awaited.
C7_NoRunningTaskAtDelivery ==
    \A i \in Invocations :
        (pc[i] \in {"closing", "done"} /\ name[i] = RegisteredName) => TaskFinished(i)

C7_Witness ==
    \E i \in Invocations :
        /\ Ended(i)
        /\ Kind(outcome[i]) = "Cancelled"
        /\ task[i] = "cancelled"
        /\ taskExc[i] = "CancelledError"

\* C8: a failure of the upstream call that is neither a timeout, nor a
\* cancellation, nor a non-2xx response ends in UnexpectedError with the
\* message 'Unexpected error: <cause>'.
C8_OtherFailureIsUnexpected ==
    \A i \in Invocations :
        (Ended(i) /\ ~cancelObserved[i] /\ task[i] = "raised"
            /\ ~IsTimeoutException(taskExc[i])) =>
                outcome[i] = Raise("RuntimeError",
                                   <<"Unexpected error: ", Cause(taskExc[i])>>, 151)

\* C9: a non-2xx response, with no cancellation observed, ends in
\* UpstreamError: a raised RuntimeError whose message holds the status
\* context and the body text of the response.
C9_Non2xxIsUpstreamError ==
    \A i \in Invocations :
        (Ended(i) /\ ~cancelObserved[i] /\ task[i] = "returned"
            /\ ~(respStatus[i] \in 200..299)) =>
                /\ outcome[i].form = "raise"
                /\ Kind(outcome[i]) = "UpstreamError"
                /\ Contains(outcome[i].text, respBody[i])
                /\ \E k \in DOMAIN outcome[i].text :
                       outcome[i].text[k] = StatusErrorStr(respStatus[i])

C9_Witness ==
    \E i \in Invocations :
        /\ Ended(i)
        /\ respStatus[i] = 401
        /\ respBody[i] = "{\"error\":\"bad key\"}"
        /\ ~cancelObserved[i]
        /\ outcome[i].exc = "RuntimeError"

\* C10: the timeout text and the cancellation text are always returned,
\* 'API error' and 'Unexpected error' are always raised; a timeout or a
\* cancellation that reaches the end of the handler is never raised and an
\* upstream status error is never returned.
C10_Rendering ==
    \A i \in Invocations :
        pc[i] = "done" =>
            /\ outcome[i].text \in {TimedOutText, CancelledText} => outcome[i].form = "return"
            /\ (Len(outcome[i].text) > 0
                  /\ outcome[i].text[1] \in {"API error: ", "Unexpected error: "}) =>
                    (outcome[i].form = "raise" /\ outcome[i].exc = "RuntimeError")
            /\ (client[i] = "closed" /\ pending[i].tag = "exc"
                  /\ IsTimeoutException(pending[i].val)) => Kind(outcome[i]) = "TimedOut"
            /\ (client[i] = "closed" /\ pending[i] = ReturnSignal("cancelled")) =>
                    Kind(outcome[i]) = "Cancelled"
            /\ (client[i] = "closed" /\ pending[i] = ExcSignal("HTTPStatusError")) =>
                    Kind(outcome[i]) = "UpstreamError"
            /\ (client[i] = "closed" /\ pending[i].tag = "exc"
                  /\ pending[i].val \in OtherExceptions) => Kind(outcome[i]) = "UnexpectedError"

C10_Witness ==
    \E i \in Invocations :
        /\ pc[i] = "done"
        /\ outcome[i].text = TimedOutText
        /\ taskExc[i] = "ReadTimeout"

\* Everything the model keeps about invocation i.
Slot(i) ==
    <<name[i], args[i], pc[i], client[i], pending[i], outcome[i], delivered[i],
      cancelObserved[i], cancelSignalled[i], task[i], taskExc[i], respStatus[i],
      respBody[i], phase[i], attempts[i], phaseClock[i], elapsed[i],
      tasksCreated[i], cancelCalls[i]>>

\* C11: concurrent invocations are independent: a step of one invocation
\* (its cancellation, its timeout, any other step) leaves everything of
\* every other invocation as it was: outcome, request task, client, clock.
C11_Independent ==
    [][\A i, j \in Invocations :
          (i # j /\ Slot(i)' # Slot(i)) => Slot(j)' = Slot(j)]_vars

C11_Witness ==
    \E i, j \in Invocations :
        /\ i # j
        /\ pc[i] = "awaiting" /\ cancelSignalled[i] /\ task[i] = "running"
        /\ pc[j] = "awaiting" /\ task[j] = "running"
        /\ phaseClock[j] >= DEFAULT_TIMEOUT

\* C12: a 2xx response, with no cancellation observed, ends in Success and
\* the returned text is the body of the response exactly as it was received.
C12_SuccessIsBodyVerbatim ==
    \A i \in Invocations :
        (Ended(i) /\ ~cancelObserved[i] /\ task[i] = "returned"
            /\ respStatus[i] \in 200..299) =>
                /\ outcome[i].form = "return"
                /\ outcome[i].text = <<respBody[i]>>
                /\ Kind(outcome[i]) = "Success"

C12_Witness ==
    \E i \in Invocations :
        /\ Ended(i)
        /\ respStatus[i] = 200
        /\ outcome[i].text = <<"{\"id\":\"x\",\"choices\":[]}">>
        /\ outcome[i].line = 116

\* C13: every call of handle_list_tools, in any state and between any
\* steps of an invocation, returns exactly one descriptor, named
\* ask_perplexity, and all calls return the same descriptors.
C13_ListToolsPure ==
    \A k \in DOMAIN listings :
        /\ Len(listings[k]) = 1
        /\ listings[k][1].name = RegisteredName
        /\ listings[k][1].inputSchema.required = <<"model", "messages">>
        /\ \A m \in DOMAIN listings : listings[m] = listings[k]

C13_Witness ==
    /\ Len(listings) = 2
    /\ \E i \in Invocations : Started(i) /\ task[i] = "running"

\* C14: an invocation of the registered tool creates exactly one request
\* task (an unknown name creates none), the handler never creates a second
\* one, and once the outcome is delivered (TimedOut and Cancelled included)
\* nothing is sent any more: task, connection attempts and task count stay.
C14_OneUpstreamCall ==
    /\ [](\A i \in Invocations :
            tasksCreated[i] = IF name[i] = RegisteredName THEN 1 ELSE 0)
    /\ [][\A i \in Invocations :
            pc[i] = "done" =>
                /\ pc[i]' = "done"
                /\ task[i]' = task[i]
                /\ attempts[i]' = attempts[i]
                /\ tasksCreated[i]' = tasksCreated[i]]_vars

C14_Witness ==
    \E i \in Invocations :
        /\ Ended(i)
        /\ Kind(outcome[i]) = "TimedOut"
        /\ tasksCreated[i] = 1
        /\ attempts[i] = RETRIES + 1

\* C15: within one invocation the transport makes at most RETRIES + 1
\* connection attempts, the caller gets no outcome while the request task
\* (and so any retry) is still running, and a connection failure or
\* connection timeout reaches the handler only from the last attempt.
C15_BoundedInvisibleRetry ==
    \A i \in Invocations :
        /\ attempts[i] <= RETRIES + 1
        /\ task[i] = "running" => (pc[i] = "awaiting" /\ delivered[i] = 0
                                     /\ outcome[i] = NoOutcome /\ pending[i] = NoSignal)
        /\ (task[i] = "raised" /\ taskExc[i] \in {"ConnectError", "ConnectTimeout"}) =>
                attempts[i] = RETRIES + 1
        /\ delivered[i] <= 1

C15_Witness ==
    \E i \in Invocations :
        /\ Ended(i)
        /\ attempts[i] = 3
        /\ task[i] = "returned"
        /\ Kind(outcome[i]) = "Success"

\* C16: when the handler has seen the timeout before any cancellation
\* (the shielded await resumed with the timeout exception, the handler
\* never called request_task.cancel()), the outcome is TimedOut, also if
\* the caller cancels before the handler has returned.
C16_TimeoutFirstWins ==
    \A i \in Invocations :
        (Ended(i) /\ cancelCalls[i] = 0 /\ pending[i].tag = "exc"
            /\ IsTimeoutException(pending[i].val)) =>
                outcome[i] = Return(TimedOutText, 139)

\* C17: a transport timeout that reaches the except clauses is classified
\* by the first of them: the result is the returned timeout text, for every
\* timeout exception, although each of them is an httpx.HTTPError as well;
\* a timeout never ends as UpstreamError or UnexpectedError.
C17_TimeoutClauseFirst ==
    \A i \in Invocations :
        /\ \A e \in TimeoutExceptions :
              /\ IsHTTPError(e)
              /\ ExceptClauses(e, respStatus[i], respBody[i]) = Return(TimedOutText, 139)
        /\ (pc[i] = "done" /\ pending[i].tag = "exc" /\ pending[i].val \in TimeoutExceptions) =>
              /\ Kind(outcome[i]) \notin {"UpstreamError", "UnexpectedError"}
              /\ client[i] = "closed" => Kind(outcome[i]) = "TimedOut"

C17_Witness ==
    \E i \in Invocations :
        /\ Ended(i)
        /\ taskExc[i] = "ConnectTimeout"
        /\ pending[i] = ExcSignal("ConnectTimeout")
        /\ outcome[i].line = 139

\* C18: the request task is cancelled only by the handler's own
\* request_task.cancel() after it has caught the cancellation: a cancel of
\* the handler that is still pending at the shielded await leaves the task
\* alone, and an invocation that saw no cancellation at that await (success,
\* timeout, error) never calls request_task.cancel().
C18_AbortOnlyOnCancel ==
    \A i \in Invocations :
        /\ task[i] \in {"cancelling", "cancelled"} => (cancelCalls[i] = 1 /\ cancelObserved[i])
        /\ cancelCalls[i] > 0 => cancelObserved[i]
        /\ cancelCalls[i] <= 1
        /\ (pc[i] = "awaiting" /\ cancelSignalled[i]) =>
                (task[i] \in {"running", "returned", "raised"} /\ cancelCalls[i] = 0)
        /\ (Ended(i) /\ pending[i] \in {ReturnSignal("response"), ExcSignal("HTTPStatusError")}) =>
                cancelCalls[i] = 0

C18_Witness ==
    \E i \in Invocations :
        /\ pc[i] = "awaiting"
        /\ cancelSignalled[i]
        /\ task[i] = "running"
        /\ phase[i] = "recv"
        /\ cancelCalls[i] = 0

\* C19: an invocation that passed the name check has its client open
\* while it runs and closed, the transport with it, when its outcome has
\* reached the caller, on every way out of the handler; an invocation that
\* failed the name check has no client.
C19_ClientClosedAtEnd ==
    \A i \in Invocations :
        /\ Started(i) => client[i] = "open"
        /\ Ended(i) => client[i] = "closed"
        /\ name[i] # RegisteredName => client[i] = "none"

====
